---- MODULE Spec2Model ----
(***************************************************************************)
(* Model of the HealthChatApp widget of src/index.tsx: the transcript      *)
(* (messages), the isLoading flag, the Chat session and the asynchronous   *)
(* invocations of handleSendMessage that are suspended at one of its two   *)
(* await points.  The user may edit the prompt field between any two       *)
(* events, so its content is an input of each submit, not a variable.      *)
(*                                                                         *)
(* Text is a sequence of one-character strings, so that trim() and         *)
(* concatenation are computed rather than assumed.                         *)
(***************************************************************************)
EXTENDS Integers, Sequences, FiniteSets, TLC

\* ------------------------------------------------------------------ bounds
MaxRequests == 2    \* accepted sends in one behaviour
MaxChunks == 3      \* chunks one stream delivers at most

\* ------------------------------------------------------------- text values
WhiteSpace == {" ", "\n"}
\* contents of the prompt field at a submit: empty, white space only, text
\* with white space around and inside it, plain text
RawPrompts ==
  {<<>>, <<" ", "\n">>, <<" ", "a", " ", "b", "\n">>, <<"c">>}

\* what the service may deliver: two streams, one alternating "x", "yz",
\* "x", ... and one alternating "yz", "x", "yz", ...; a stream may end or
\* throw at any point, so every prefix of them is a stream too
Chunks == {<<"x">>, <<"y", "z">>}
ChunkAt(first, n) == IF n % 2 = 1 THEN first ELSE CHOOSE c \in Chunks : c /= first
Streams ==
  {[n \in 1..k |-> ChunkAt(first, n)] : first \in Chunks, k \in 0..MaxChunks}

Greeting == <<"G">>
ErrorMessage == <<"E">>

Last(s) == s[Len(s)]

\* String.prototype.trim, as used on the form's prompt field
RECURSIVE TrimStart(_)
TrimStart(s) ==
  IF s = <<>> THEN s
  ELSE IF Head(s) \in WhiteSpace THEN TrimStart(Tail(s)) ELSE s

RECURSIVE TrimEnd(_)
TrimEnd(s) ==
  IF s = <<>> THEN s
  ELSE IF Last(s) \in WhiteSpace THEN TrimEnd(SubSeq(s, 1, Len(s) - 1)) ELSE s

TrimLeadingOnly(s) == TrimStart(s)
Trim(s) == TrimEnd(TrimStart(s))

\* ------------------------------------------------------------------- state
VARIABLES
  messages,   \* this.messages: the transcript
  isLoading,  \* this.isLoading
  chat,       \* messages passed to this.chat.sendMessageStream, in order
  handlers,   \* invocations of handleSendMessage suspended at an await
  last        \* the event that produced the current state

vars == <<messages, isLoading, chat, handlers, last>>

NoKey == [key |-> "none", shiftKey |-> FALSE, ctrlKey |-> FALSE,
          altKey |-> FALSE, metaKey |-> FALSE]

\* Enter with every combination of modifier keys, and one other key
KeyEvents ==
  [key : {"Enter"}, shiftKey : BOOLEAN, ctrlKey : BOOLEAN,
   altKey : BOOLEAN, metaKey : BOOLEAN]
  \cup {[NoKey EXCEPT !.key = "a"], [NoKey EXCEPT !.key = "a", !.ctrlKey = TRUE]}

Event(op, submit, accepted, e, received) ==
  [op |-> op, submit |-> submit, accepted |-> accepted, e |-> e,
   received |-> received]

Init ==
  /\ messages = <<[role |-> "model", text |-> Greeting]>>
  /\ isLoading = FALSE
  /\ chat = <<>>
  /\ handlers = <<>>
  /\ last = Event("init", FALSE, FALSE, NoKey, <<>>)

\* ------------------------------------------------- pieces of the handler
RejectsBlankOnly(prompt, loading) == prompt = <<>>
RejectsLoadingOnly(prompt, loading) == loading
\* if (!prompt || this.isLoading) return;
Rejects(prompt, loading) == prompt = <<>> \/ loading

AppendUserOnly(msgs, prompt) == msgs \o <<[role |-> "user", text |-> prompt]>>
AppendTurnLoadingFirst(msgs, prompt) ==
  msgs \o <<[role |-> "loading", text |-> <<>>],
            [role |-> "user", text |-> prompt]>>
\* this.messages = [...this.messages, {user, prompt}, {loading, ''}]
AppendTurn(msgs, prompt) ==
  msgs \o <<[role |-> "user", text |-> prompt],
            [role |-> "loading", text |-> <<>>]>>

AppendInsteadOfReplace(msgs, m) == Append(msgs, m)
ReplaceLastTwo(msgs, m) == SubSeq(msgs, 1, Len(msgs) - 2) \o <<m>>
\* [...this.messages.slice(0, -1), m]
ReplaceLast(msgs, m) == SubSeq(msgs, 1, Len(msgs) - 1) \o <<m>>

AccumulateReversed(modelResponse, chunkText) == chunkText \o modelResponse
\* modelResponse += chunkText
Accumulate(modelResponse, chunkText) == modelResponse \o chunkText

SetLastTextAppends(msgs, t) == Append(msgs, [role |-> "model", text |-> t])
\* lastMessage.text = modelResponse, on the element that is last right now
SetLastText(msgs, t) == [msgs EXCEPT ![Len(msgs)].text = t]

CatchBlockResets(msgs) == ReplaceLast(msgs, [role |-> "loading", text |-> <<>>])
\* catch (error) { ...; this.messages = [...slice(0,-1), {model, errorMessage}] }
CatchBlock(msgs) == ReplaceLast(msgs, [role |-> "model", text |-> ErrorMessage])

FinallyMissing(loading) == loading
\* finally { this.isLoading = false; }
Finally(loading) == FALSE

SubmitsOnAnyEnter(e) == e.key = "Enter"
\* if (e.key === 'Enter' && !e.shiftKey)
SubmitsOnKey(e) == e.key = "Enter" /\ ~e.shiftKey

RemoveAt(s, i) == SubSeq(s, 1, i - 1) \o SubSeq(s, i + 1, Len(s))

\* --------------------------------------------------------------- actions
\* The synchronous part of handleSendMessage, up to its first await.
\* The accepted branch is cut off once MaxRequests requests were issued.
Accepts(raw) == ~Rejects(Trim(raw), isLoading)

SubmitEffect(raw) ==
  LET prompt == Trim(raw) IN
  IF Rejects(prompt, isLoading)
  THEN UNCHANGED <<messages, isLoading, chat, handlers>>
  ELSE /\ Len(chat) < MaxRequests
       /\ messages' = AppendTurn(messages, prompt)
       /\ isLoading' = TRUE
       /\ chat' = Append(chat, prompt)
       /\ handlers' = Append(handlers,
            [pc |-> "open", prompt |-> prompt, firstChunk |-> TRUE,
             modelResponse |-> <<>>, received |-> <<>>])

\* a submit event on the form.  While isLoading the button and the textarea
\* are disabled, so such an event is dispatched by a script only.
HandleSendMessage(raw) ==
  /\ SubmitEffect(raw)
  /\ last' = Event("submit", TRUE, Accepts(raw), NoKey, <<>>)

\* keydown on the textarea, which is disabled (.disabled=${this.isLoading})
\* and receives no key events while isLoading; requestSubmit() dispatches
\* the submit event
KeyDown(e) ==
  /\ ~isLoading
  /\ IF SubmitsOnKey(e)
     THEN \E raw \in RawPrompts :
            /\ SubmitEffect(raw)
            /\ last' = Event("keydown", TRUE, Accepts(raw), e, <<>>)
     ELSE /\ last' = Event("keydown", FALSE, FALSE, e, <<>>)
          /\ UNCHANGED <<messages, isLoading, chat, handlers>>

\* await this.chat.sendMessageStream(...) resolves
StreamOpened(i) ==
  /\ handlers[i].pc = "open"
  /\ handlers' = [handlers EXCEPT ![i].pc = "stream",
                                  ![i].firstChunk = TRUE,
                                  ![i].modelResponse = <<>>]
  /\ last' = Event("opened", FALSE, FALSE, NoKey, <<>>)
  /\ UNCHANGED <<messages, isLoading, chat>>

\* await this.chat.sendMessageStream(...) rejects
OpenFailed(i) ==
  /\ handlers[i].pc = "open"
  /\ messages' = CatchBlock(messages)
  /\ isLoading' = Finally(isLoading)
  /\ handlers' = RemoveAt(handlers, i)
  /\ last' = Event("openfailed", FALSE, FALSE, NoKey, handlers[i].received)
  /\ UNCHANGED chat

\* one iteration of the for await loop
ChunkArrives(i, chunkText) ==
  LET h == handlers[i]
      response == Accumulate(h.modelResponse, chunkText) IN
  /\ h.pc = "stream"
  /\ Append(h.received, chunkText) \in Streams
  /\ messages' = IF h.firstChunk
                 THEN ReplaceLast(messages, [role |-> "model", text |-> response])
                 ELSE SetLastText(messages, response)
  /\ handlers' = [handlers EXCEPT ![i].modelResponse = response,
                                  ![i].firstChunk = FALSE,
                                  ![i].received = Append(@, chunkText)]
  /\ last' = Event("chunk", FALSE, FALSE, NoKey, Append(h.received, chunkText))
  /\ UNCHANGED <<isLoading, chat>>

StreamEndsWithoutFinally(i) ==
  /\ handlers[i].pc = "stream"
  /\ handlers' = RemoveAt(handlers, i)
  /\ last' = Event("end", FALSE, FALSE, NoKey, handlers[i].received)
  /\ UNCHANGED <<messages, isLoading, chat>>

\* the stream is exhausted: the loop exits and finally runs
StreamEnds(i) ==
  /\ handlers[i].pc = "stream"
  /\ isLoading' = Finally(isLoading)
  /\ handlers' = RemoveAt(handlers, i)
  /\ last' = Event("end", FALSE, FALSE, NoKey, handlers[i].received)
  /\ UNCHANGED <<messages, chat>>

\* the stream throws while it is iterated: catch, then finally
StreamError(i) ==
  /\ handlers[i].pc = "stream"
  /\ messages' = CatchBlock(messages)
  /\ isLoading' = Finally(isLoading)
  /\ handlers' = RemoveAt(handlers, i)
  /\ last' = Event("error", FALSE, FALSE, NoKey, handlers[i].received)
  /\ UNCHANGED chat

Terminate ==
  \E i \in 1..Len(handlers) : OpenFailed(i) \/ StreamEnds(i) \/ StreamError(i)

Next ==
  \/ \E raw \in RawPrompts : HandleSendMessage(raw)
  \/ \E e \in KeyEvents : KeyDown(e)
  \/ \E i \in 1..Len(handlers) : StreamOpened(i)
  \/ \E i \in 1..Len(handlers) : OpenFailed(i)
  \/ \E i \in 1..Len(handlers) : \E c \in Chunks : ChunkArrives(i, c)
  \/ \E i \in 1..Len(handlers) : StreamEnds(i)
  \/ \E i \in 1..Len(handlers) : StreamError(i)

Spec == Init /\ [][Next]_vars

\* every opened stream eventually ends or errors
FairSpec == Spec /\ WF_vars(Terminate)


\* ------------------------------------------------------------ vocabulary
IsBlank(raw) == \A i \in 1..Len(raw) : raw[i] \in WhiteSpace

\* p is raw without its leading and trailing white space
Substrings(raw) ==
  {SubSeq(raw, a, b) : a \in 1..(Len(raw) + 1), b \in 0..Len(raw)}

IsTrimOf(p, raw) ==
  \E i, j \in 0..Len(raw) :
    /\ i + j <= Len(raw)
    /\ p = SubSeq(raw, i + 1, Len(raw) - j)
    /\ IsBlank(SubSeq(raw, 1, i))
    /\ IsBlank(SubSeq(raw, Len(raw) - j + 1, Len(raw)))
    /\ p /= <<>> => (Head(p) \notin WhiteSpace /\ Last(p) \notin WhiteSpace)

RECURSIVE Flatten(_)
Flatten(cs) == IF cs = <<>> THEN <<>> ELSE Head(cs) \o Flatten(Tail(cs))

PendingIdx == {i \in 1..Len(messages) : messages[i].role = "loading"}

\* this step is a submit of the form holding raw
SubmitStep(raw) == SubmitEffect(raw) /\ last'.submit

UserMsg(p) == [role |-> "user", text |-> p]
ModelMsg(t) == [role |-> "model", text |-> t]
PendingMsg == [role |-> "loading", text |-> <<>>]
AnyModifier(e) == e.shiftKey \/ e.ctrlKey \/ e.altKey \/ e.metaKey

\* ------------------------------------------------------------------ claims
\* C1: in every reachable state the transcript holds at most one loading
\* message, and if there is one it is the last element.
C1_AtMostOnePendingAndLast ==
  /\ Cardinality(PendingIdx) <= 1
  /\ PendingIdx \subseteq {Len(messages)}

\* C2: when the stream raises an error after at least one chunk was received,
\* the last message stays the model message holding the chunks received so
\* far (no error text in the transcript) and isLoading is false.
C2_PartialReplyKeptOnLateError ==
  (last.op = "error" /\ last.received /= <<>>)
    => (Last(messages) = ModelMsg(Flatten(last.received)) /\ ~isLoading)

\* C3: once a stream terminates (end, failure to open, error) isLoading is
\* false; if every opened stream eventually ends or errors, isLoading = TRUE
\* leads to isLoading = FALSE, and a non-blank send made then is accepted.
C3_BusyAlwaysCleared ==
  /\ [](last.op \in {"end", "openfailed", "error"} => ~isLoading)
  /\ (isLoading ~> ~isLoading)
  /\ [][\A raw \in RawPrompts :
          (SubmitStep(raw) /\ ~IsBlank(raw) /\ ~isLoading)
            => (isLoading' /\ Len(messages') = Len(messages) + 2)]_vars

C3_Witness ==
  /\ Len(chat) >= 2
  /\ last.submit /\ last.accepted /\ isLoading
  /\ Len(messages) >= 5

\* C4: a send whose prompt is blank after trimming, or any send made while
\* isLoading, leaves the transcript and isLoading unchanged.
C4_RejectedSendIsNoOp ==
  [][\A raw \in RawPrompts :
       (SubmitStep(raw) /\ (IsBlank(raw) \/ isLoading))
         => UNCHANGED <<messages, isLoading>>]_vars

C4_Witness ==
  /\ last.submit /\ ~last.accepted
  /\ isLoading
  /\ Last(messages).role = "loading"

\* C5: a send of a prompt that is not blank, made while isLoading is false,
\* appends exactly user:trimmed prompt and an empty loading message, and sets
\* isLoading.
C5_AcceptedSendAppendsTurn ==
  [][\A raw \in RawPrompts :
       (SubmitStep(raw) /\ ~IsBlank(raw) /\ ~isLoading)
         => /\ isLoading'
            /\ \E p \in Substrings(raw) :
                 /\ IsTrimOf(p, raw)
                 /\ messages' = messages \o <<UserMsg(p), PendingMsg>>]_vars

C5_Witness ==
  /\ last.submit /\ last.accepted /\ isLoading
  /\ Len(messages) >= 3
  /\ Last(messages) = PendingMsg
  /\ messages[Len(messages) - 1].role = "user"
  /\ handlers /= <<>> /\ handlers[1].pc = "open"

\* C6: when a stream delivered chunks c1..cn (n >= 1) and then ended, the
\* last message is the model message whose text is c1 + ... + cn.
C6_ConcatenationLaw ==
  (last.op = "end" /\ last.received /= <<>>)
    => Last(messages) = ModelMsg(Flatten(last.received))

C6_Witness ==
  /\ last.op = "end"
  /\ Len(last.received) = 3
  /\ last.received[1] /= last.received[2]
  /\ Last(messages).role = "model"

\* C7: when the stream, or the call opening it, fails before any chunk was
\* received, the loading placeholder is replaced in place by the model
\* message with the fixed error text, and isLoading becomes false.
C7_EarlyErrorReplacesPlaceholder ==
  [][(last'.op \in {"openfailed", "error"} /\ last'.received = <<>>)
       => /\ Last(messages) = PendingMsg
          /\ Len(messages') = Len(messages)
          /\ messages' = [messages EXCEPT ![Len(messages)] = ModelMsg(ErrorMessage)]
          /\ ~isLoading']_vars

C7_Witness ==
  /\ last.op = "error" /\ last.received = <<>>
  /\ Last(messages) = ModelMsg(ErrorMessage)
  /\ ~isLoading

\* C8: at most one invocation of the handler is in flight; a request is
\* issued only by the step that accepts a send, never later for a send that
\* was rejected.
C8_SingleRequestInFlight ==
  /\ [](Len(handlers) <= 1)
  /\ [][~(last'.submit /\ last'.accepted) => chat' = chat]_vars

C8_Witness ==
  /\ last.submit /\ ~last.accepted
  /\ Len(handlers) = 1 /\ handlers[1].pc = "stream"
  /\ handlers[1].received /= <<>>

\* C9: an accepted send issues exactly one request, whose payload is the
\* trimmed prompt, equal to the text of the user message just appended; a
\* rejected send and every other event issue none.
C9_OneRequestPerAcceptedSend ==
  /\ [][\A raw \in RawPrompts :
          SubmitStep(raw) =>
            IF IsBlank(raw) \/ isLoading
            THEN chat' = chat
            ELSE \E p \in Substrings(raw) :
                   /\ IsTrimOf(p, raw)
                   /\ chat' = Append(chat, p)
                   /\ messages'[Len(messages) + 1] = UserMsg(p)]_vars
  /\ [][~last'.submit => chat' = chat]_vars

C9_Witness ==
  /\ last.submit /\ last.accepted
  /\ Len(chat) >= 2
  /\ Last(chat) = messages[Len(messages) - 1].text
  /\ Last(chat) /= chat[1]

\* C10 as stated: Enter pressed together with any modifier key does not
\* trigger a submit.
C10_AnyModifierBlocksSubmit ==
  (last.op = "keydown" /\ last.e.key = "Enter" /\ AnyModifier(last.e))
    => ~last.submit

\* C10 amended: a keydown triggers a submit exactly when the key is Enter
\* and Shift is not held; Ctrl, Alt and Meta do not prevent it.
C10_ShiftBlocksSubmit ==
  last.op = "keydown"
    => (last.submit <=> (last.e.key = "Enter" /\ ~last.e.shiftKey))

C10_Witness ==
  /\ last.op = "keydown" /\ last.e.key = "Enter"
  /\ last.e.ctrlKey /\ ~last.e.shiftKey
  /\ last.submit /\ last.accepted
  /\ Last(messages) = PendingMsg

\* C11: after each received chunk k of the current request the last message
\* is the model message holding chunks 1..k concatenated; the first chunk
\* replaces the loading placeholder in place and every later chunk extends
\* the same last message, the transcript length staying the same.
C11_ChunkUpdatesLastMessage ==
  [][last'.op = "chunk"
       => /\ Len(messages') = Len(messages)
          /\ messages' = [messages EXCEPT
                            ![Len(messages)] = ModelMsg(Flatten(last'.received))]
          /\ IF Len(last'.received) = 1
             THEN Last(messages) = PendingMsg
             ELSE Last(messages) =
                    ModelMsg(Flatten(SubSeq(last'.received, 1,
                                            Len(last'.received) - 1)))]_vars

C11_Witness ==
  /\ last.op = "chunk"
  /\ Len(last.received) = 2
  /\ isLoading
  /\ Last(messages) = ModelMsg(Flatten(last.received))
  /\ Len(messages) = 3

\* C12: isLoading is true exactly while a request is in flight (its handler
\* waits for the stream to open or for the next chunk); it becomes true in
\* the step that appends the user and loading messages and stays true through
\* every chunk.
C12_BusyIffRequestInFlight ==
  /\ [](isLoading <=> (/\ handlers /= <<>>
                       /\ \A i \in 1..Len(handlers) :
                            handlers[i].pc \in {"open", "stream"}))
  /\ [][(Len(messages') = Len(messages) + 2) => (~isLoading /\ isLoading')]_vars
  /\ [][last'.op = "chunk" => (isLoading /\ isLoading')]_vars

C12_Witness ==
  /\ ~isLoading
  /\ handlers = <<>>
  /\ last.op = "end"
  /\ Len(last.received) = 1
  /\ Len(chat) = 1

\* C13: a transcript position that holds a user or model message holds a
\* message that is not loading in every later state.
C13_ReplacedNeverPendingAgain ==
  [][\A i \in 1..Len(messages) :
       messages[i].role /= "loading"
         => (i <= Len(messages') /\ messages'[i].role /= "loading")]_vars

C13_Witness ==
  /\ last.op = "error"
  /\ last.received /= <<>>
  /\ Len(messages) = 3
  /\ messages[3].role = "model"

\* C14: whenever isLoading is false the transcript holds no loading message,
\* also after a stream that ended without delivering any chunk.
C14_NoPendingWhenIdle ==
  ~isLoading => PendingIdx = {}

\* C15: the transcript never gets shorter, changes length only in the step
\* that accepts a send, and no step changes a message other than the last
\* one, so the greeting and all earlier turns stay as they were.
C15_AppendOnlyExceptLast ==
  /\ [][/\ Len(messages') >= Len(messages)
        /\ Len(messages') /= Len(messages) => (last'.submit /\ last'.accepted)
        /\ \A i \in 1..(Len(messages) - 1) : messages'[i] = messages[i]
        /\ ~(last'.submit /\ last'.accepted)
             => (last'.op \in {"chunk", "error", "openfailed"}
                   \/ messages' = messages)]_vars
  /\ [](messages[1] = ModelMsg(Greeting))

C15_Witness ==
  /\ Len(messages) = 5
  /\ last.op = "error"
  /\ messages[3] = ModelMsg(Flatten(<<<<"x">>, <<"y", "z">>>>))
  /\ messages[5] = ModelMsg(ErrorMessage)

UserIdx == {i \in 1..Len(messages) : messages[i].role = "user"}

\* C16: the transcript is the model greeting followed by turn pairs: every
\* user message is directly followed by one message that is not a user
\* message, no two user messages are adjacent, and there are as many user
\* messages as requests issued to the service.
C16_GreetingThenTurnPairs ==
  /\ messages[1] = ModelMsg(Greeting)
  /\ Len(messages) = 1 + 2 * Len(chat)
  /\ Cardinality(UserIdx) = Len(chat)
  /\ \A i \in UserIdx :
       /\ i < Len(messages)
       /\ messages[i + 1].role \in {"loading", "model"}
       /\ messages[i - 1].role /= "user"
  /\ \A k \in 1..Len(chat) :
       /\ messages[2 * k] = UserMsg(chat[k])
       /\ messages[2 * k + 1].role /= "user"

C16_Witness ==
  /\ Len(chat) = 2
  /\ UserIdx = {2, 4}
  /\ messages[3].role = "loading"
  /\ messages[5].role = "model"
  /\ chat[1] /= chat[2]
====
